---- MODULE Spec2Model ----
(***************************************************************************)
(* A model of database-extractor: the DeltaTime offset arithmetic, the     *)
(* query window construction, the date sequence generator of main.py, the  *)
(* DST offset rule and the per-day / per-range extraction loop with its    *)
(* row-count gate.                                                         *)
(*                                                                         *)
(* Values are tagged records ("type" names the Python type).  A formatted  *)
(* time string is the sequence of its 20 characters.  A datetime keeps its *)
(* calendar fields, a timedelta its normalised (days, seconds) pair, as    *)
(* the Python objects do.                                                  *)
(***************************************************************************)
EXTENDS Integers, Sequences, FiniteSets, TLC

VARIABLES
    \* timezone_offset applied to one instant
    tz_pc, tz_date, tz_result,
    \* construct_query_time_endpoints applied to one set of arguments
    ep_pc, ep_query_time, ep_delta_start, ep_delta_end, ep_tz, ep_result,
    \* one DeltaTime operator applied to one operand
    dt_pc, dt_self, dt_other, dt_op, dt_result,
    \* process_results / the gate of batched_data applied to one result
    gate_pc, gate_df, gate_path, gate_outcome,
    \* generate_datetime_list: its arguments, locals and position
    gen_pc, gen_start, gen_end, gen_delta, gen_current, gen_datetimes,
    \* query_data_for_range: its arguments, locals and position, and what
    \* the day it last extracted did
    rng_pc, start_date, end_date, month, j, up_to_date,
    extracted, last_day, last_window, last_result, last_outcome

tzVars == <<tz_pc, tz_date, tz_result>>
epVars == <<ep_pc, ep_query_time, ep_delta_start, ep_delta_end, ep_tz, ep_result>>
dtVars == <<dt_pc, dt_self, dt_other, dt_op, dt_result>>
gateVars == <<gate_pc, gate_df, gate_path, gate_outcome>>
genVars == <<gen_pc, gen_start, gen_end, gen_delta, gen_current, gen_datetimes>>
rngVars == <<rng_pc, start_date, end_date, month, j, up_to_date,
             extracted, last_day, last_window, last_result, last_outcome>>
vars == <<tzVars, epVars, dtVars, gateVars, genVars, rngVars>>

-----------------------------------------------------------------------------
(* Python's datetime and timedelta, as far as the program uses them.        *)

days_before_month_table == <<0, 31, 59, 90, 120, 151, 181, 212, 243, 273, 304, 334>>

is_leap(year) ==
    year % 4 = 0 /\ (year % 100 # 0 \/ year % 400 = 0)

days_before_year(year) ==
    LET y == year - 1
    IN  y * 365 + (y \div 4) - (y \div 100) + (y \div 400)

days_before_month(year, m) ==
    days_before_month_table[m] + (IF m > 2 /\ is_leap(year) THEN 1 ELSE 0)

\* datetime.toordinal(): 0001-01-01 is day 1
ymd2ord(year, m, day) ==
    days_before_year(year) + days_before_month(year, m) + day

\* date.fromordinal(n), as <<year, month, day>>
ord2ymd(ordinal) ==
    LET n0   == ordinal - 1
        n400 == n0 \div 146097
        r400 == n0 % 146097
        n100 == r400 \div 36524
        r100 == r400 % 36524
        n4   == r100 \div 1461
        r4   == r100 % 1461
        n1   == r4 \div 365
        n    == r4 % 365
        year == n400 * 400 + 1 + n100 * 100 + n4 * 4 + n1
    IN  IF n1 = 4 \/ n100 = 4
        THEN <<year - 1, 12, 31>>
        ELSE LET leapyear == n1 = 3 /\ (n4 # 24 \/ n100 = 3)
                 leap(mm) == IF mm > 2 /\ leapyear THEN 1 ELSE 0
                 m0       == (n + 50) \div 32
                 p0       == days_before_month_table[m0] + leap(m0)
                 mo       == IF p0 > n THEN m0 - 1 ELSE m0
                 prec     == days_before_month_table[mo] + leap(mo)
             IN  <<year, mo, n - prec + 1>>

MAXORDINAL == 3652059

SecondsPerDay == 86400

datetime(year, m, day, hour, minute, second) ==
    [type |-> "datetime", year |-> year, month |-> m, day |-> day,
     hour |-> hour, minute |-> minute, second |-> second]

\* timedelta(days=, hours=, minutes=, seconds=): normalised so that
\* 0 <= seconds < 86400
timedelta(days, hours, minutes, seconds) ==
    LET total == hours * 3600 + minutes * 60 + seconds
    IN  [type |-> "timedelta",
         days |-> days + (total \div SecondsPerDay),
         seconds |-> total % SecondsPerDay]

IsException(v) ==
    v.type \in {"TypeError", "OverflowError", "AttributeError"}

Raise(name) == [type |-> name]

timedelta_add(a, b) ==
    timedelta(a.days + b.days, 0, 0, a.seconds + b.seconds)

timedelta_sub(a, b) ==
    timedelta(a.days - b.days, 0, 0, a.seconds - b.seconds)

timedelta_neg(a) ==
    timedelta(-a.days, 0, 0, -a.seconds)

\* timedelta.total_seconds()
total_seconds(td) ==
    td.days * SecondsPerDay + td.seconds

\* datetime + timedelta: OverflowError outside 0001-01-01 .. 9999-12-31
datetime_add(d, td) ==
    LET delta == timedelta(ymd2ord(d.year, d.month, d.day) + td.days,
                           d.hour, d.minute, d.second + td.seconds)
        ymd   == ord2ymd(delta.days)
    IN  IF 0 < delta.days /\ delta.days <= MAXORDINAL
        THEN datetime(ymd[1], ymd[2], ymd[3],
                      delta.seconds \div 3600,
                      (delta.seconds % 3600) \div 60,
                      delta.seconds % 60)
        ELSE Raise("OverflowError")

\* datetime - datetime
datetime_diff(a, b) ==
    timedelta(ymd2ord(a.year, a.month, a.day) - ymd2ord(b.year, b.month, b.day),
              a.hour - b.hour, a.minute - b.minute, a.second - b.second)

\* datetime <= datetime compares the fields in order
datetime_le(a, b) ==
    LET fa == <<a.year, a.month, a.day, a.hour, a.minute, a.second>>
        fb == <<b.year, b.month, b.day, b.hour, b.minute, b.second>>
    IN  \/ fa = fb
        \/ \E i \in 1..6 : /\ fa[i] < fb[i]
                           /\ \A k \in 1..(i - 1) : fa[k] = fb[k]

-----------------------------------------------------------------------------
(* strftime and strptime with DEFAULT_TIME_FORMAT "%Y-%m-%dT%H:%M:%SZ".     *)

DigitChars == <<"0", "1", "2", "3", "4", "5", "6", "7", "8", "9">>

Pad2(n) == <<DigitChars[(n \div 10) + 1], DigitChars[(n % 10) + 1]>>

Pad4(n) == Pad2(n \div 100) \o Pad2(n % 100)

DigitOf(c) == CHOOSE d \in 0..9 : DigitChars[d + 1] = c

RECURSIVE NumberAt(_, _, _)
\* the decimal number written in characters first..last of s
NumberAt(s, first, last) ==
    IF last < first THEN 0
    ELSE NumberAt(s, first, last - 1) * 10 + DigitOf(s[last])

str(chars) == [type |-> "str", chars |-> chars]

strftime(d) ==
    IF IsException(d) THEN d
    ELSE
    str(Pad4(d.year) \o <<"-">> \o Pad2(d.month) \o <<"-">> \o Pad2(d.day)
        \o <<"T">> \o Pad2(d.hour) \o <<":">> \o Pad2(d.minute)
        \o <<":">> \o Pad2(d.second) \o <<"Z">>)

strptime(s) ==
    datetime(NumberAt(s.chars, 1, 4), NumberAt(s.chars, 6, 7),
             NumberAt(s.chars, 9, 10), NumberAt(s.chars, 12, 13),
             NumberAt(s.chars, 15, 16), NumberAt(s.chars, 18, 19))

-----------------------------------------------------------------------------
(* The + and - of the built-in types, before DeltaTime takes part.          *)

builtin_add(a, b) ==
    IF IsException(a) THEN a
    ELSE IF IsException(b) THEN b
    ELSE IF a.type = "timedelta" /\ b.type = "timedelta" THEN timedelta_add(a, b)
    ELSE IF a.type = "datetime" /\ b.type = "timedelta" THEN datetime_add(a, b)
    ELSE IF a.type = "timedelta" /\ b.type = "datetime" THEN datetime_add(b, a)
    ELSE Raise("TypeError")

builtin_sub(a, b) ==
    IF IsException(a) THEN a
    ELSE IF IsException(b) THEN b
    ELSE IF a.type = "timedelta" /\ b.type = "timedelta" THEN timedelta_sub(a, b)
    ELSE IF a.type = "datetime" /\ b.type = "timedelta"
         THEN datetime_add(a, timedelta_neg(b))
    ELSE IF a.type = "datetime" /\ b.type = "datetime" THEN datetime_diff(a, b)
    ELSE Raise("TypeError")

-----------------------------------------------------------------------------
(* class DeltaTime                                                          *)

DeltaTime(days, hours, minutes, seconds) ==
    [type |-> "DeltaTime", days |-> days, hours |-> hours,
     minutes |-> minutes, seconds |-> seconds]

to_timedelta(self) ==
    timedelta(self.days, self.hours, self.minutes, self.seconds)

DeltaTime_add(self, other) ==
    IF other.type = "timedelta" THEN builtin_add(to_timedelta(self), other)
    ELSE IF other.type = "str" THEN builtin_add(to_timedelta(self), strptime(other))
    ELSE IF other.type = "datetime" THEN builtin_add(other, to_timedelta(self))
    ELSE IF other.type = "DeltaTime"
         THEN builtin_add(to_timedelta(self), to_timedelta(other))
    ELSE Raise("TypeError")

DeltaTime_radd(self, other) == DeltaTime_add(self, other)

DeltaTime_sub(self, other) ==
    IF other.type = "timedelta" THEN builtin_sub(to_timedelta(self), other)
    ELSE IF other.type = "str" THEN builtin_sub(to_timedelta(self), strptime(other))
    ELSE IF other.type = "datetime" THEN builtin_sub(other, to_timedelta(self))
    ELSE IF other.type = "DeltaTime"
         THEN builtin_sub(to_timedelta(self), to_timedelta(other))
    ELSE Raise("TypeError")

DeltaTime_rsub(self, other) == DeltaTime_sub(self, other)

\* a + b: the left operand's __add__, else the right operand's __radd__
PyAdd(a, b) ==
    IF IsException(a) THEN a
    ELSE IF IsException(b) THEN b
    ELSE IF a.type = "DeltaTime" THEN DeltaTime_add(a, b)
    ELSE IF b.type = "DeltaTime" THEN DeltaTime_radd(b, a)
    ELSE builtin_add(a, b)

\* a - b: the left operand's __sub__, else the right operand's __rsub__
PySub(a, b) ==
    IF IsException(a) THEN a
    ELSE IF IsException(b) THEN b
    ELSE IF a.type = "DeltaTime" THEN DeltaTime_sub(a, b)
    ELSE IF b.type = "DeltaTime" THEN DeltaTime_rsub(b, a)
    ELSE builtin_sub(a, b)

-----------------------------------------------------------------------------
(* construct_query_time_endpoints                                           *)

\* a tuple or list argument becomes DeltaTime(*argument)
CoerceDelta(delta_time) ==
    IF delta_time.type \in {"tuple", "list"}
    THEN DeltaTime(delta_time.items[1], delta_time.items[2],
                   delta_time.items[3], delta_time.items[4])
    ELSE delta_time

\* ApplyTzOffset with the correction added instead of subtracted
ApplyTzOffset_added(t, tz_offset) ==
    PyAdd(t, timedelta(0, tz_offset, 0, 0))

\* the timezone correction applied to query_time + delta
ApplyTzOffset(t, tz_offset) ==
    PySub(t, timedelta(0, tz_offset, 0, 0))

construct_query_time_endpoints(query_time, delta_time_start, delta_time_end, tz_offset) ==
    LET dts == CoerceDelta(delta_time_start)
        dte == CoerceDelta(delta_time_end)
        qt  == IF query_time.type = "str" THEN strptime(query_time) ELSE query_time
    IN  <<strftime(ApplyTzOffset(PyAdd(qt, dts), tz_offset)),
          strftime(ApplyTzOffset(PyAdd(qt, dte), tz_offset))>>

-----------------------------------------------------------------------------
(* timezone_offset                                                          *)

DST_start == datetime(2024, 3, 10, 2, 0, 0)

DST_end == datetime(2024, 11, 3, 1, 0, 0)

\* timezone_offset with the transition instants counted as daylight time
timezone_offset_inclusive(current_date) ==
    IF /\ total_seconds(builtin_sub(current_date, DST_start)) >= 0
       /\ total_seconds(builtin_sub(DST_end, current_date)) >= 0
    THEN -7
    ELSE -8

timezone_offset(current_date) ==
    IF /\ total_seconds(builtin_sub(current_date, DST_start)) > 0
       /\ total_seconds(builtin_sub(DST_end, current_date)) > 0
    THEN -7
    ELSE -8

-----------------------------------------------------------------------------
(* A reference calendar for 2023..2025, used to state the properties: an    *)
(* instant is its number of seconds since 2023-01-01T00:00:00.              *)

RefMonthLengths(y) ==
    IF y = 2024 THEN <<31, 29, 31, 30, 31, 30, 31, 31, 30, 31, 30, 31>>
    ELSE <<31, 28, 31, 30, 31, 30, 31, 31, 30, 31, 30, 31>>

RefYearStart(y) ==
    CASE y = 2023 -> 0 [] y = 2024 -> 365 [] y = 2025 -> 731

RECURSIVE SumFirst(_, _)
SumFirst(seq, n) == IF n = 0 THEN 0 ELSE SumFirst(seq, n - 1) + seq[n]

RefValid(d) ==
    /\ d.year \in 2023..2025 /\ d.month \in 1..12
    /\ d.day \in 1..RefMonthLengths(d.year)[d.month]
    /\ d.hour \in 0..23 /\ d.minute \in 0..59 /\ d.second \in 0..59

RefInstant(d) ==
    (RefYearStart(d.year) + SumFirst(RefMonthLengths(d.year), d.month - 1)
        + d.day - 1) * 86400
    + d.hour * 3600 + d.minute * 60 + d.second

\* a formatted string that reads back as a valid date and prints as itself
WellFormed(s) ==
    s.type = "str" /\ Len(s.chars) = 20 /\ RefValid(strptime(s))
    /\ strftime(strptime(s)) = s

\* t1 lies strictly before t2, comparing the calendar fields in order
RefBefore(t1, t2) ==
    LET a == <<t1.year, t1.month, t1.day, t1.hour, t1.minute, t1.second>>
        b == <<t2.year, t2.month, t2.day, t2.hour, t2.minute, t2.second>>
    IN  \E i \in 1..6 : a[i] < b[i] /\ \A k \in 1..(i - 1) : a[k] = b[k]

-----------------------------------------------------------------------------
(* Values the variables of an operation hold while another one is checked.  *)

TzIdle == tz_pc = "idle" /\ tz_date = <<>> /\ tz_result = 0

EpIdle ==
    /\ ep_pc = "idle" /\ ep_query_time = <<>> /\ ep_delta_start = <<>>
    /\ ep_delta_end = <<>> /\ ep_tz = 0 /\ ep_result = <<>>

DtIdle ==
    /\ dt_pc = "idle" /\ dt_self = <<>> /\ dt_other = <<>>
    /\ dt_op = "none" /\ dt_result = <<>>

GateIdle ==
    gate_pc = "idle" /\ gate_df = <<>> /\ gate_path = "none" /\ gate_outcome = <<>>

GenIdle ==
    /\ gen_pc = "idle" /\ gen_start = <<>> /\ gen_end = <<>>
    /\ gen_delta = <<>> /\ gen_current = <<>> /\ gen_datetimes = <<>>

RngIdle ==
    /\ rng_pc = "idle" /\ start_date = <<>> /\ end_date = <<>>
    /\ month = 0 /\ j = 0 /\ up_to_date = FALSE /\ extracted = <<>>
    /\ last_day = <<>> /\ last_window = <<>> /\ last_result = <<>>
    /\ last_outcome = <<>>

-----------------------------------------------------------------------------
(* timezone_offset applied to the instants around the two transitions, in   *)
(* 2024 and in the years next to it.                                        *)

TzYears == {2023, 2024, 2025}

TzInstants ==
    {datetime(y, m, d, h, mi, s) :
        y \in TzYears, m \in {1, 3, 6, 11, 12}, d \in {2, 3, 4, 9, 10, 11},
        h \in {0, 1, 2, 3, 23}, mi \in {0, 59}, s \in {0, 1}}

InitTz ==
    /\ tz_pc = "call" /\ tz_date \in TzInstants /\ tz_result = 0
    /\ EpIdle /\ DtIdle /\ GateIdle /\ GenIdle /\ RngIdle

TzCall ==
    /\ tz_pc = "call"
    /\ tz_result' = timezone_offset(tz_date)
    /\ tz_pc' = "returned"
    /\ UNCHANGED <<tz_date, epVars, dtVars, gateVars, genVars, rngVars>>

NextTz == TzCall

SpecTz == InitTz /\ [][NextTz]_vars

\* C7: timezone_offset(t) is -7 when t is strictly after 2024-03-10T02:00
\* and strictly before 2024-11-03T01:00, and -8 otherwise; the two
\* transition instants and every instant of another year give -8.
C7_OffsetRule ==
    tz_pc = "returned" =>
        /\ tz_result =
              (IF /\ RefBefore(datetime(2024, 3, 10, 2, 0, 0), tz_date)
                  /\ RefBefore(tz_date, datetime(2024, 11, 3, 1, 0, 0))
               THEN -7 ELSE -8)
        /\ tz_date \in {datetime(2024, 3, 10, 2, 0, 0),
                        datetime(2024, 11, 3, 1, 0, 0)} => tz_result = -8
        /\ tz_date.year # 2024 => tz_result = -8

\* the rule has answered -8 at the instant daylight time begins
C7_Witness ==
    /\ tz_pc = "returned"
    /\ tz_date = datetime(2024, 3, 10, 2, 0, 0)
    /\ tz_result = -8

-----------------------------------------------------------------------------
(* construct_query_time_endpoints applied to reference times given as       *)
(* datetime or as string, offsets given as DeltaTime, tuple or list, and    *)
(* whole-hour timezone offsets.                                             *)

MaxTz == 8

RefTimes ==
    {datetime(2024, 5, 16, 10, 0, 0), datetime(2024, 2, 29, 23, 30, 0),
     datetime(2024, 12, 31, 23, 59, 59), datetime(2024, 1, 1, 0, 0, 0),
     datetime(2024, 3, 10, 0, 0, 0), datetime(2024, 11, 3, 0, 0, 0)}

OffsetItems ==
    {<<0, -2, 0, 0>>, <<0, 1, 0, 0>>, <<0, 0, 0, 0>>, <<0, 24, 0, 0>>,
     <<-1, 0, 90, -1>>}

EpQueryTimes == RefTimes \cup {strftime(d) : d \in RefTimes}

EpDeltas ==
    {DeltaTime(o[1], o[2], o[3], o[4]) : o \in OffsetItems}
    \cup {[type |-> t, items |-> o] : t \in {"tuple", "list"}, o \in OffsetItems}

InitEndpoints ==
    /\ ep_pc = "call"
    /\ ep_query_time \in EpQueryTimes
    /\ ep_delta_start \in EpDeltas
    /\ ep_delta_end \in EpDeltas
    /\ ep_tz \in (-MaxTz)..MaxTz
    /\ ep_result = <<>>
    /\ TzIdle /\ DtIdle /\ GateIdle /\ GenIdle /\ RngIdle

EndpointsCall ==
    /\ ep_pc = "call"
    /\ ep_result' = construct_query_time_endpoints(
                        ep_query_time, ep_delta_start, ep_delta_end, ep_tz)
    /\ ep_pc' = "returned"
    /\ UNCHANGED <<ep_query_time, ep_delta_start, ep_delta_end, ep_tz,
                   tzVars, dtVars, gateVars, genVars, rngVars>>

NextEndpoints == EndpointsCall

SpecEndpoints == InitEndpoints /\ [][NextEndpoints]_vars

\* the reference time of the call, as a datetime
EpReference ==
    IF ep_query_time.type = "str" THEN strptime(ep_query_time) ELSE ep_query_time

\* the length in seconds of an offset argument
OffsetSeconds(o) ==
    LET f == IF o.type \in {"tuple", "list"} THEN o.items
             ELSE <<o.days, o.hours, o.minutes, o.seconds>>
    IN  f[1] * 86400 + f[2] * 3600 + f[3] * 60 + f[4]

\* the call of the repository's tests: 2024-05-16T10:00:00Z, (0,-2,0,0), (0,1,0,0)
EpTestCall ==
    /\ EpReference = datetime(2024, 5, 16, 10, 0, 0)
    /\ OffsetSeconds(ep_delta_start) = -7200 /\ ep_delta_start.type # "DeltaTime"
    /\ OffsetSeconds(ep_delta_end) = 3600 /\ ep_delta_end.type # "DeltaTime"

C4_TzShiftsWindowByK ==
    ep_pc = "returned" =>
        LET zero == construct_query_time_endpoints(
                        ep_query_time, ep_delta_start, ep_delta_end, 0)
        IN  /\ RefInstant(strptime(ep_result[1]))
                  = RefInstant(strptime(zero[1])) + 3600 * ep_tz
            /\ RefInstant(strptime(ep_result[2]))
                  = RefInstant(strptime(zero[2])) + 3600 * ep_tz
            /\ (EpTestCall /\ ep_tz = -8) =>
                  ep_result =
                    <<str(<<"2","0","2","4","-","0","5","-","1","6","T",
                            "0","0",":","0","0",":","0","0","Z">>),
                      str(<<"2","0","2","4","-","0","5","-","1","6","T",
                            "0","3",":","0","0",":","0","0","Z">>)>>

-----------------------------------------------------------------------------
(* The four DeltaTime operators, each applied to an offset and an operand   *)
(* of every type the class tests for, and of one it does not.               *)

DtOffsets == {DeltaTime(o[1], o[2], o[3], o[4]) : o \in OffsetItems}

DtOperands ==
    {timedelta(0, 3, 0, 0), timedelta(1, 0, 0, 0), timedelta(0, 0, 0, 0),
     timedelta(0, -1, 0, -1)}
    \cup RefTimes
    \cup {strftime(d) : d \in RefTimes}
    \cup DtOffsets
    \cup {[type |-> "int", value |-> 5]}

InitDelta ==
    /\ dt_pc = "call" /\ dt_self \in DtOffsets /\ dt_other \in DtOperands
    /\ dt_op = "none" /\ dt_result = <<>>
    /\ TzIdle /\ EpIdle /\ GateIdle /\ GenIdle /\ RngIdle

DtReturn(op, result) ==
    /\ dt_pc = "call"
    /\ dt_op' = op
    /\ dt_result' = result
    /\ dt_pc' = "returned"
    /\ UNCHANGED <<dt_self, dt_other, tzVars, epVars, gateVars, genVars, rngVars>>

\* dt_self + dt_other
DtAdd == DtReturn("add", PyAdd(dt_self, dt_other))

\* dt_other + dt_self
DtRadd == DtReturn("radd", PyAdd(dt_other, dt_self))

\* dt_self - dt_other
DtSub == DtReturn("sub", PySub(dt_self, dt_other))

\* dt_other - dt_self
DtRsub == DtReturn("rsub", PySub(dt_other, dt_self))

NextDelta == DtAdd \/ DtRadd \/ DtSub \/ DtRsub

SpecDelta == InitDelta /\ [][NextDelta]_vars

\* the length in seconds of a timedelta
DurationSeconds(td) == td.days * 86400 + td.seconds

\* C8: subtraction mirrors addition for every supported operand type, and
\* reflected subtraction computes the external value minus the offset: a
\* duration d minus an offset o is d less o's duration, a timestamp t minus
\* o is t moved back by o's duration.
C8_ReflectedSubtraction ==
    dt_pc = "returned" =>
        /\ (dt_op = "rsub" /\ dt_other.type = "timedelta") =>
              /\ dt_result.type = "timedelta"
              /\ DurationSeconds(dt_result)
                    = DurationSeconds(dt_other) - OffsetSeconds(dt_self)
        /\ (dt_op = "rsub" /\ dt_other.type = "datetime") =>
              /\ dt_result.type = "datetime"
              /\ RefValid(dt_result)
              /\ RefInstant(dt_result) = RefInstant(dt_other) - OffsetSeconds(dt_self)

-----------------------------------------------------------------------------
(* The row-count gate: process_results, and the gate of batched_data.       *)
(* A query result is None or a DataFrame, of which the gate reads the       *)
(* numbers of rows and columns.  The query pivots on "_time" and no drop    *)
(* list names that column, so a frame with rows has a column.               *)

MaxRows == 21

MaxCols == 2

None == [type |-> "NoneType"]

DataFrame(rows, cols) == [type |-> "DataFrame", rows |-> rows, cols |-> cols]

DataFrames ==
    {DataFrame(r, c) : r \in 0..MaxRows, c \in 0..MaxCols} \
        {DataFrame(r, 0) : r \in 1..MaxRows}

\* df.size
df_size(df) == df.rows * df.cols

Outcome(log, write, raised) == [log |-> log, write |-> write, raised |-> raised]

\* process_results with the write error left to propagate
process_results_uncaught(df, to_csv_ok) ==
    IF df.type = "NoneType" THEN Outcome("none", "none", "AttributeError")
    ELSE IF df_size(df) = 0 THEN Outcome("No data", "none", "none")
    ELSE IF df.rows < 10 THEN Outcome("Less than 10 rows", "none", "none")
    ELSE IF to_csv_ok THEN Outcome("csv created", "ok", "none")
    ELSE Outcome("none", "failed", "OSError")

\* process_results discarding a result of exactly ten rows
process_results_above(df, to_csv_ok) ==
    IF df.type = "NoneType" THEN Outcome("none", "none", "AttributeError")
    ELSE IF df_size(df) = 0 THEN Outcome("No data", "none", "none")
    ELSE IF df.rows <= 10 THEN Outcome("Less than 10 rows", "none", "none")
    ELSE IF to_csv_ok THEN Outcome("csv created", "ok", "none")
    ELSE Outcome("error", "failed", "none")

\* what process_results logs, whether it writes the day's CSV and with what
\* result, and what it raises; to_csv_ok is whether the file system takes
\* the write
process_results(df, to_csv_ok) ==
    IF df.type = "NoneType" THEN Outcome("none", "none", "AttributeError")
    ELSE IF df_size(df) = 0 THEN Outcome("No data", "none", "none")
    ELSE IF df.rows < 10 THEN Outcome("Less than 10 rows", "none", "none")
    ELSE IF to_csv_ok THEN Outcome("csv created", "ok", "none")
    ELSE Outcome("error", "failed", "none")

data_threshold == 20

\* the body of the loop of batched_data, after query_database has returned
batched_data_gate(result, to_csv_ok) ==
    IF result.type = "NoneType" THEN Outcome("none", "none", "TypeError")
    ELSE IF result.rows >= data_threshold
         THEN IF to_csv_ok THEN Outcome("none", "ok", "none")
              ELSE Outcome("none", "failed", "OSError")
    ELSE Outcome("none", "none", "none")

InitGate ==
    /\ gate_pc = "call" /\ gate_df \in DataFrames \cup {None}
    /\ gate_path = "none" /\ gate_outcome = <<>>
    /\ TzIdle /\ EpIdle /\ DtIdle /\ GenIdle /\ RngIdle

GateReturn(path, outcome) ==
    /\ gate_pc = "call"
    /\ gate_path' = path
    /\ gate_outcome' = outcome
    /\ gate_pc' = IF outcome.raised = "none" THEN "returned" ELSE "raised"
    /\ UNCHANGED <<gate_df, tzVars, epVars, dtVars, genVars, rngVars>>

ProcessResultsCall ==
    \E to_csv_ok \in BOOLEAN :
        GateReturn("process_results", process_results(gate_df, to_csv_ok))

BatchedDataGate ==
    \E to_csv_ok \in BOOLEAN :
        GateReturn("batched_data", batched_data_gate(gate_df, to_csv_ok))

NextGate == ProcessResultsCall \/ BatchedDataGate

SpecGate == InitGate /\ [][NextGate]_vars

\* C5: for a result that is not None, process_results attempts no file
\* write when the result is empty or has fewer than 10 rows, and attempts
\* the CSV write when it has 10 rows or more (exactly 10 included); the
\* batched path does the same with threshold 20.
C5_RowCountGate ==
    (gate_pc # "call" /\ gate_df.type = "DataFrame") =>
        LET threshold == IF gate_path = "process_results" THEN 10 ELSE 20
        IN  /\ (gate_df.rows = 0 \/ gate_df.rows < threshold)
                  => gate_outcome.write = "none"
            /\ gate_df.rows >= threshold
                  => gate_outcome.write \in {"ok", "failed"}

\* process_results has written the CSV of a result of exactly ten rows
C5_Witness ==
    /\ gate_pc = "returned" /\ gate_path = "process_results"
    /\ gate_df.type = "DataFrame" /\ gate_df.rows = 10
    /\ gate_outcome.write = "ok"

-----------------------------------------------------------------------------
(* generate_datetime_list of main.py, one loop iteration per step.          *)

MaxLen == 6

HugeDays == 800000

GenDates ==
    {datetime(2024, 2, 1, 0, 0, 0), datetime(2024, 2, 3, 0, 0, 0),
     datetime(2024, 2, 2, 12, 0, 0), datetime(2024, 2, 28, 12, 0, 0),
     datetime(2024, 3, 1, 0, 0, 0)}

GenDeltas ==
    {timedelta(1, 0, 0, 0), timedelta(0, 12, 0, 0), timedelta(1, 0, 30, 0),
     timedelta(0, 0, 0, 0), timedelta(-1, 0, 0, 0), timedelta(0, 0, 0, -1),
     timedelta(-HugeDays, 0, 0, 0)}

\* the loop test with the end instant left out
LoopCondition_exclusive(current, end) ==
    datetime_le(current, end) /\ current # end

\* while current <= end
LoopCondition(current, end) ==
    datetime_le(current, end)

\* the step taken with the size of delta, whatever its sign
Advance_abs(current, delta) ==
    IF delta.days < 0 THEN PyAdd(current, timedelta_neg(delta))
    ELSE PyAdd(current, delta)

\* current += delta
Advance(current, delta) ==
    PyAdd(current, delta)

InitGen ==
    /\ gen_start \in {strftime(d) : d \in GenDates}
    /\ gen_end \in {strftime(d) : d \in GenDates}
    /\ gen_delta \in GenDeltas
    /\ gen_current = strptime(gen_start)
    /\ gen_datetimes = <<>>
    /\ gen_pc = "loop"
    /\ TzIdle /\ EpIdle /\ DtIdle /\ GateIdle /\ RngIdle

\* one pass through the loop body; a run that no delta ends is followed
\* for MaxLen passes
GenIterate ==
    /\ gen_pc = "loop"
    /\ LoopCondition(gen_current, strptime(gen_end))
    /\ (gen_delta.days > 0 \/ (gen_delta.days = 0 /\ gen_delta.seconds > 0)
            \/ Len(gen_datetimes) < MaxLen)
    /\ gen_datetimes' = Append(gen_datetimes, strftime(gen_current))
    /\ LET next == Advance(gen_current, gen_delta)
       IN  IF IsException(next)
           THEN gen_pc' = "raised" /\ gen_current' = gen_current
           ELSE gen_pc' = "loop" /\ gen_current' = next
    /\ UNCHANGED <<gen_start, gen_end, gen_delta,
                   tzVars, epVars, dtVars, gateVars, rngVars>>

\* the loop test fails: return datetimes
GenReturn ==
    /\ gen_pc = "loop"
    /\ ~LoopCondition(gen_current, strptime(gen_end))
    /\ gen_pc' = "returned"
    /\ UNCHANGED <<gen_start, gen_end, gen_delta, gen_current, gen_datetimes,
                   tzVars, epVars, dtVars, gateVars, rngVars>>

NextGen == GenIterate \/ GenReturn

\* the function runs on its own thread of control until it returns
SpecGen == InitGen /\ [][NextGen]_vars /\ WF_vars(NextGen)

GenStartInstant == RefInstant(strptime(gen_start))

GenEndInstant == RefInstant(strptime(gen_end))

GenDeltaSeconds == DurationSeconds(gen_delta)

\* delta > timedelta(0): a normalised timedelta is negative exactly when its
\* days are
GenDeltaPositive ==
    gen_delta.days > 0 \/ (gen_delta.days = 0 /\ gen_delta.seconds > 0)

GenDeltaNegative == gen_delta.days < 0

\* the list returned for a positive delta: the instants start + k * delta
\* up to end, each once, in order
GenExactList ==
    LET n == Len(gen_datetimes)
    IN  /\ \A i \in 1..n :
              /\ WellFormed(gen_datetimes[i])
              /\ RefInstant(strptime(gen_datetimes[i]))
                    = GenStartInstant + (i - 1) * GenDeltaSeconds
              /\ RefInstant(strptime(gen_datetimes[i])) <= GenEndInstant
        /\ GenStartInstant + n * GenDeltaSeconds > GenEndInstant
        /\ GenStartInstant > GenEndInstant => n = 0
        /\ ( /\ strptime(gen_start) = datetime(2024, 2, 1, 0, 0, 0)
             /\ strptime(gen_end) = datetime(2024, 2, 3, 0, 0, 0)
             /\ gen_delta = timedelta(1, 0, 0, 0) ) =>
              gen_datetimes =
                <<str(<<"2","0","2","4","-","0","2","-","0","1","T",
                        "0","0",":","0","0",":","0","0","Z">>),
                  str(<<"2","0","2","4","-","0","2","-","0","2","T",
                        "0","0",":","0","0",":","0","0","Z">>),
                  str(<<"2","0","2","4","-","0","2","-","0","3","T",
                        "0","0",":","0","0",":","0","0","Z">>)>>

C10_NeverReturns ==
    ~GenDeltaPositive => gen_pc # "returned"

\* C10 as amended: with delta <= 0 and start_date <= end_date the function
\* never returns its list (the loop test stays true after every step; a
\* negative delta ends the run only by the OverflowError of datetime
\* arithmetic below 0001-01-01); with start_date after end_date it returns
\* the empty list at once.
C10_NeverReturnsWhenStartNotAfterEnd ==
    /\ (~GenDeltaPositive /\ GenStartInstant <= GenEndInstant)
          => gen_pc # "returned"
    /\ (gen_pc = "raised" /\ ~GenDeltaPositive)
          => GenDeltaNegative /\ GenStartInstant <= GenEndInstant
    /\ (~GenDeltaPositive /\ GenStartInstant > GenEndInstant)
          => gen_datetimes = <<>> /\ gen_pc \in {"loop", "returned"}

\* a run with delta zero is still in its loop after MaxLen passes
C10_Witness ==
    /\ gen_pc = "loop" /\ ~GenDeltaPositive /\ ~GenDeltaNegative
    /\ GenStartInstant < GenEndInstant
    /\ Len(gen_datetimes) = MaxLen

-----------------------------------------------------------------------------
(* query_data_for_range and query_data_for_day.  One step is one test of    *)
(* the month loop or one pass through the day loop; the pass that extracts  *)
(* a day runs query_data_for_day to its end.  month and j are the loop      *)
(* indices, both counted from 0; extracted lists the <<month, day>> of the  *)
(* dates passed to query_data_for_day.                                      *)

days_in_each_month == <<31, 29, 31, 30, 31, 30, 31, 31, 30, 31, 30, 31>>

RangeDates ==
    {datetime(2024, md[1], md[2], 0, 0, 0) :
        md \in {<<1, 1>>, <<1, 31>>, <<2, 28>>, <<3, 15>>, <<4, 10>>, <<12, 31>>}}

\* what client.query_dataframe and drop_columns hand to process_results
DayResults ==
    {None, DataFrame(0, 0), DataFrame(9, MaxCols), DataFrame(10, MaxCols)}

\* if start_date.month > month: continue
SkipMonth(start, m) == start.month > m

\* if start_date.day > days: continue
SkipDay(start, days) == start.day > days

\* if (end_date.month == month+1) and (end_date.day == j+1)
AtEndDate(end, m, jj) == end.month = m + 1 /\ end.day = jj + 1

\* the month loop going on after the end date was reached
BreakAfterEnd_never(reached) == FALSE

\* if not up_to_date: ... else: break
BreakAfterEnd(reached) == reached

\* the window query_database computes for the day
DayWindow(current_date) ==
    construct_query_time_endpoints(
        strftime(current_date),
        [type |-> "list", items |-> <<0, 0, 0, 0>>],
        [type |-> "list", items |-> <<0, 24, 0, 0>>],
        timezone_offset(current_date))

InitRange ==
    /\ start_date \in RangeDates
    /\ end_date \in RangeDates
    /\ rng_pc = "month_loop"
    /\ month = 0 /\ j = 0 /\ up_to_date = FALSE
    /\ extracted = <<>>
    /\ last_day = <<>> /\ last_window = <<>> /\ last_result = <<>>
    /\ last_outcome = <<>>
    /\ TzIdle /\ EpIdle /\ DtIdle /\ GateIdle /\ GenIdle

lastVars == <<last_day, last_window, last_result, last_outcome>>

otherVars == <<tzVars, epVars, dtVars, gateVars, genVars>>

\* a month before the start month is passed over
RangeSkipMonth ==
    /\ rng_pc = "month_loop" /\ month < Len(days_in_each_month)
    /\ SkipMonth(start_date, month)
    /\ month' = month + 1
    /\ UNCHANGED <<rng_pc, start_date, end_date, j, up_to_date, extracted,
                   lastVars, otherVars>>

\* the day loop of the month begins
RangeEnterMonth ==
    /\ rng_pc = "month_loop" /\ month < Len(days_in_each_month)
    /\ ~SkipMonth(start_date, month)
    /\ ~BreakAfterEnd(up_to_date)
    /\ rng_pc' = "day_loop"
    /\ j' = 0
    /\ UNCHANGED <<start_date, end_date, month, up_to_date, extracted,
                   lastVars, otherVars>>

\* the end date was reached in an earlier month: break
RangeBreak ==
    /\ rng_pc = "month_loop" /\ month < Len(days_in_each_month)
    /\ ~SkipMonth(start_date, month)
    /\ BreakAfterEnd(up_to_date)
    /\ rng_pc' = "done"
    /\ UNCHANGED <<start_date, end_date, month, j, up_to_date, extracted,
                   lastVars, otherVars>>

\* the table of months is exhausted
RangeMonthsDone ==
    /\ rng_pc = "month_loop" /\ month = Len(days_in_each_month)
    /\ rng_pc' = "done"
    /\ UNCHANGED <<start_date, end_date, month, j, up_to_date, extracted,
                   lastVars, otherVars>>

\* a day of a month shorter than the start day is passed over
RangeSkipDay ==
    /\ rng_pc = "day_loop" /\ j < days_in_each_month[month + 1]
    /\ SkipDay(start_date, days_in_each_month[month + 1])
    /\ j' = j + 1
    /\ UNCHANGED <<rng_pc, start_date, end_date, month, up_to_date, extracted,
                   lastVars, otherVars>>

\* the day is the end date: set the flag and leave the day loop
RangeReachedEnd ==
    /\ rng_pc = "day_loop" /\ j < days_in_each_month[month + 1]
    /\ ~SkipDay(start_date, days_in_each_month[month + 1])
    /\ AtEndDate(end_date, month, j)
    /\ up_to_date' = TRUE
    /\ rng_pc' = "month_loop"
    /\ month' = month + 1
    /\ UNCHANGED <<start_date, end_date, j, extracted, lastVars, otherVars>>

\* query_data_for_day(client, datetime(2024, month+1, j+1)): the query, then
\* process_results; an exception leaves query_data_for_range
RangeQueryDay ==
    /\ rng_pc = "day_loop" /\ j < days_in_each_month[month + 1]
    /\ ~SkipDay(start_date, days_in_each_month[month + 1])
    /\ ~AtEndDate(end_date, month, j)
    /\ \E result \in DayResults, to_csv_ok \in BOOLEAN :
          LET date    == datetime(2024, month + 1, j + 1, 0, 0, 0)
              outcome == process_results(result, to_csv_ok)
          IN  /\ extracted' = Append(extracted, <<month + 1, j + 1>>)
              /\ last_day' = date
              /\ last_window' = DayWindow(date)
              /\ last_result' = result
              /\ last_outcome' = outcome
              /\ IF outcome.raised = "none"
                 THEN rng_pc' = "day_loop" /\ j' = j + 1
                 ELSE rng_pc' = "raised" /\ j' = j
    /\ UNCHANGED <<start_date, end_date, month, up_to_date, otherVars>>

\* the days of the month are exhausted
RangeDaysDone ==
    /\ rng_pc = "day_loop" /\ j = days_in_each_month[month + 1]
    /\ rng_pc' = "month_loop"
    /\ month' = month + 1
    /\ UNCHANGED <<start_date, end_date, j, up_to_date, extracted,
                   lastVars, otherVars>>

NextRange ==
    \/ RangeSkipMonth \/ RangeEnterMonth \/ RangeBreak \/ RangeMonthsDone
    \/ RangeSkipDay \/ RangeReachedEnd \/ RangeQueryDay \/ RangeDaysDone

SpecRange == InitRange /\ [][NextRange]_vars

\* the <<month, day>> after md in the calendar of 2024
CalendarNext(md) ==
    IF md[2] < RefMonthLengths(2024)[md[1]] THEN <<md[1], md[2] + 1>>
    ELSE <<md[1] + 1, 1>>

\* <<month, day>> a lies before b in the year
DayBefore(a, b) == a[1] < b[1] \/ (a[1] = b[1] /\ a[2] < b[2])

RECURSIVE CalendarDays(_, _)
\* the days from a (included) to b (excluded), in calendar order
CalendarDays(a, b) ==
    IF ~DayBefore(a, b) THEN <<>>
    ELSE <<a>> \o CalendarDays(CalendarNext(a), b)

StartDay == <<start_date.month, start_date.day>>

EndDay == <<end_date.month, end_date.day>>

\* C1: with start_date before end_date, query_data_for_range extracts each
\* calendar day from start_date (included) to end_date (excluded) exactly
\* once, in calendar order, and no other day.
C1_ExtractsStartToEnd ==
    (rng_pc = "done" /\ DayBefore(StartDay, EndDay))
        => extracted = CalendarDays(StartDay, EndDay)

\* C2: once a day equal to the end date is reached and the flag is set, no
\* further day is extracted: not the end date, no later day of its month,
\* no day of a later month.
C2_NothingAfterEndReached ==
    /\ [][up_to_date => extracted' = extracted]_vars
    /\ [](\A i \in 1..Len(extracted) : extracted[i] # EndDay)
    /\ [](up_to_date => \A i \in 1..Len(extracted) : DayBefore(extracted[i], EndDay))

\* the run has stopped at the end date with days extracted before it and
\* months of the table left
C2_Witness ==
    /\ rng_pc = "done" /\ up_to_date
    /\ month < Len(days_in_each_month)
    /\ Len(extracted) > 0
    /\ CalendarNext(extracted[Len(extracted)]) = EndDay

LastDay == <<last_day.month, last_day.day>>

\* the last extracted day's CSV write failed
LastWriteFailed == last_outcome # <<>> /\ last_outcome.write = "failed"

\* C9: a day whose CSV write fails does not abort the run: nothing reaches
\* the caller, and the next calendar day of the sequence is still extracted.
C9_WriteFailureDoesNotAbort ==
    /\ [](LastWriteFailed => rng_pc # "raised")
    /\ [][(/\ LastWriteFailed
           /\ LastDay[2] < RefMonthLengths(2024)[LastDay[1]]
           /\ CalendarNext(LastDay) # EndDay)
          => extracted' = Append(extracted, CalendarNext(LastDay))]_vars
    /\ []((rng_pc = "done" /\ LastWriteFailed) =>
            \/ CalendarNext(LastDay) = EndDay
            \/ LastDay = <<12, 31>>
            \/ start_date.day > RefMonthLengths(2024)[CalendarNext(LastDay)[1]])

\* the write of 2024-03-10 has failed and the run is in its day loop, at
\* the index of 2024-03-11
C9_Witness ==
    /\ LastWriteFailed
    /\ LastDay = <<3, 10>>
    /\ rng_pc = "day_loop" /\ month = 2 /\ j = 10
    /\ CalendarNext(LastDay) # EndDay

\* C11: when the query returns None, query_data_for_day completes without
\* raising and writes no file, so the range run goes on to the next day.
C11_NoneResultCompletes ==
    (Len(extracted) > 0 /\ last_result.type = "NoneType") =>
        /\ last_outcome.raised = "none"
        /\ last_outcome.write = "none"
        /\ rng_pc # "raised"

\* C12: when the run extracts a day and then the calendar day after it, the
\* end bound of the first day's query window is the start bound of the
\* second day's, on the dates where timezone_offset changes as on all others.
C12_DailyWindowsTile ==
    [][(/\ Len(extracted) > 0
        /\ Len(extracted') = Len(extracted) + 1
        /\ extracted'[Len(extracted')] = CalendarNext(LastDay))
       => last_window'[1] = last_window[2]]_vars

====
